---- MODULE Spec2Model ----
(***************************************************************************)
(* Model of turbolift's `update-prs` command (cmd/update_prs) and of the   *)
(* command executor (internal/executor).                                   *)
(*                                                                         *)
(* Spec     : one invocation of `run` (flag validation, campaign read,     *)
(*            confirmation gate, per-repository loop, aggregate summary),  *)
(*            plus a direct call of the N-ary helper onlyOne.              *)
(* SpecExec : one call of RealExecutor.Execute, preceded by any number of  *)
(*            SetVerbose calls.                                            *)
(***************************************************************************)
EXTENDS Integers, Sequences, FiniteSets

\* -------------------------------------------------------------------------
\* Bounds of the model
\* -------------------------------------------------------------------------

\* longest campaign repository list explored
MaxRepos == 3

\* longest argument list handed to onlyOne
MaxFlags == 3

\* longest argument list handed to Execute
MaxArgs == 3

\* how far past the redaction limit the argument lengths go
ArgLenSlack == 2

VARIABLES
    closeFlag,      \* --close                      (update_prs.go:37)
    yesFlag,        \* --yes                        (update_prs.go:38)
    pc,             \* position inside run / runClose
    repos,          \* dir.Repos, once the campaign has been read
    idx,            \* position of the range loop over dir.Repos (1-based)
    doneCount,      \* update_prs.go:107
    skippedCount,   \* update_prs.go:108
    errorCount,     \* update_prs.go:109
    log,            \* every call made on logger / prompt / os / gh, in order
    ooArgs,         \* argument list of the direct onlyOne call
    ooRet,          \* its return value
    Verbose,        \* RealExecutor.Verbose
    output,         \* the io.Writer given to Execute: does it accept writes
    callArgs,       \* the args given to Execute
    epc,            \* position inside Execute
    command,        \* the exec.Cmd built by Execute
    sink,           \* the lines Execute itself wrote to output
    startCalls,     \* number of command.Start() calls
    spawned,        \* argv of every process that was started
    startRes,       \* what command.Start() answered
    waitRes,        \* what command.Wait() answered
    ret             \* what Execute returned

runVars == <<closeFlag, yesFlag, pc, repos, idx, doneCount, skippedCount,
             errorCount, log, ooArgs, ooRet>>

execVars == <<Verbose, output, callArgs, epc, command, sink, startCalls,
              spawned, startRes, waitRes, ret>>

vars == <<runVars, execVars>>

\* -------------------------------------------------------------------------
\* Values
\* -------------------------------------------------------------------------

\* repositories are identified by their FullRepoName, here a number
RepoNames == 1..MaxRepos

\* sequences over S without repetition, of length at most n
InjSeqs(S, n) ==
    UNION { { s \in [1..k -> S] : \A i, j \in 1..k : i # j => s[i] # s[j] }
            : k \in 0..n }

\* the repository lists a campaign directory may hold
Campaigns == InjSeqs(RepoNames, MaxRepos)

\* what os.Stat(repo.FullRepoPath()) may answer (update_prs.go:115)
StatResults == {"nil", "ErrNotExist", "ErrPermission"}

\* what gh.ClosePullRequest may answer (update_prs.go:121)
CloseResults == {"nil", "NoPRFoundError", "OtherError"}

\* argument lists of onlyOne
BoolSeqs == UNION { [1..k -> BOOLEAN] : k \in 0..MaxFlags }

\* one entry of the call log
Event(ev, repo, res, counts) ==
    [ev |-> ev, repo |-> repo, res |-> res, counts |-> counts]

\* -------------------------------------------------------------------------
\* Pure helpers
\* -------------------------------------------------------------------------

RECURSIVE countFlags(_, _)
\* the counting loop of onlyOne: b[v] += 1 for every v of args
countFlags(args, b) ==
    IF args = <<>> THEN b
    ELSE countFlags(Tail(args), [b EXCEPT ![Head(args)] = @ + 1])

onlyOne_AtLeastOne(args) ==
    countFlags(args, [v \in BOOLEAN |-> 0])[TRUE] >= 1

\* onlyOne(args ...bool) bool
onlyOne(args) ==
    countFlags(args, [v \in BOOLEAN |-> 0])[TRUE] = 1

\* validateFlags(closeFlag) error : "nil" or the error
validateFlags(cf) ==
    IF ~onlyOne(<<cf>>) THEN "needs one and only one action flag" ELSE "nil"

IsNotExist_AnyError(err) == err # "nil"

IsNotExist_Never(err) == FALSE

\* os.IsNotExist(err)
IsNotExist(err) == err = "ErrNotExist"

ConfirmNeeded_Never(yes) == FALSE

\* the guard `if !yesFlag` of the confirmation prompt
ConfirmNeeded(yes) == ~yes

Classify_NoPRIsError(err) ==
    IF err # "nil" THEN "Errored" ELSE "Done"

Classify_NoPRUncounted(err) ==
    IF err # "nil"
    THEN IF err = "NoPRFoundError" THEN "Warned" ELSE "Errored"
    ELSE "Done"

\* the three-way classification of ClosePullRequest's result
Classify(err) ==
    IF err # "nil"
    THEN IF err = "NoPRFoundError" THEN "Skipped" ELSE "Errored"
    ELSE "Done"

SummaryEvent_AlwaysSuccess(d, s, e) == Event("Successf", 0, "", <<d, s>>)

\* the aggregate summary line
SummaryEvent(d, s, e) ==
    IF e = 0
    THEN Event("Successf", 0, "", <<d, s>>)
    ELSE Event("Warnf", 0, "", <<d, s, e>>)

NextIndex_BreakOnError(i, class) ==
    IF class = "Errored" THEN Len(repos) + 1 ELSE i + 1

\* the range loop over dir.Repos: whatever the outcome, on to the next one
NextIndex(i, class) == i + 1

\* -------------------------------------------------------------------------
\* Executor: values and helpers
\* -------------------------------------------------------------------------

\* the length above which an argument is not logged
ArgLimit == 30

\* a string is the sequence of its characters; c repeated n times
Rep(c, n) == [i \in 1..n |-> c]

\* "..."
Placeholder == <<".", ".", ".">>

\* the argument lengths explored: short ones and those around the limit
ArgLens == {0, 1} \cup ((ArgLimit - 1)..(ArgLimit + ArgLenSlack))

\* the arguments explored
ArgPool == { Rep("a", n) : n \in ArgLens } \cup {Placeholder}

\* the argument lists explored
ArgLists == UNION { [1..k -> ArgPool] : k \in 0..MaxArgs }

\* the program and working directory of the call
Name == <<"g", "h">>
WorkingDir == <<"w", "o", "r", "k">>

RECURSIVE summarizedArgs_OffByOne(_)
summarizedArgs_OffByOne(args) ==
    IF args = <<>> THEN <<>>
    ELSE (IF Len(Head(args)) >= ArgLimit THEN <<Placeholder>> ELSE <<Head(args)>>)
         \o summarizedArgs_OffByOne(Tail(args))

RECURSIVE summarizedArgs(_)
\* summarizedArgs(args []string) []string
summarizedArgs(args) ==
    IF args = <<>> THEN <<>>
    ELSE (IF Len(Head(args)) > ArgLimit THEN <<Placeholder>> ELSE <<Head(args)>>)
         \o summarizedArgs(Tail(args))

\* the line fmt.Fprintln(output, "Executing:", name, summarizedArgs(args), "in", workingDir)
TraceLine(name, args, workingDir) ==
    [head |-> "Executing:", name |-> name, args |-> summarizedArgs(args),
     sep |-> "in", dir |-> workingDir]

\* exec.Command(name, args...) with Dir, Stdout and Stderr set
NewCommand(name, args, workingDir) ==
    [Path |-> name, Args |-> <<name>> \o args, Dir |-> workingDir,
     Stdout |-> "output", Stderr |-> "output"]

NoCommand == [Path |-> <<>>, Args |-> <<>>, Dir |-> <<>>, Stdout |-> "", Stderr |-> ""]

TraceWriteFails_Ignored(verbose, out) == FALSE

\* the verbose trace is attempted and its write returns an error
TraceWriteFails(verbose, out) == verbose /\ out = "broken"

\* what command.Wait() may answer: the process exited non-zero, or its
\* output could not be copied to a writer that refuses writes
WaitResults(out) ==
    {"nil", "ExitError"} \cup (IF out = "broken" THEN {"CopyError"} ELSE {})

\* Execute has not been called
ExecIdle ==
    /\ epc = "idle"
    /\ command = NoCommand
    /\ sink = <<>>
    /\ startCalls = 0
    /\ spawned = <<>>
    /\ startRes = "none"
    /\ waitRes = "none"
    /\ ret = "none"

\* -------------------------------------------------------------------------
\* run / runClose
\* -------------------------------------------------------------------------

Init ==
    /\ closeFlag \in BOOLEAN
    /\ yesFlag \in BOOLEAN
    /\ pc = "run"
    /\ repos = <<>>
    /\ idx = 0
    /\ doneCount = 0
    /\ skippedCount = 0
    /\ errorCount = 0
    /\ log = <<>>
    /\ ooArgs = <<>>
    /\ ooRet = FALSE
    /\ ExecIdle
    /\ Verbose = TRUE
    /\ output = "ok"
    /\ callArgs = <<>>

\* run: validate the flags, then dispatch on closeFlag
Run ==
    /\ pc = "run"
    /\ IF validateFlags(closeFlag) # "nil"
       THEN /\ log' = Append(log, Event("Errorf", 0, validateFlags(closeFlag), <<>>))
            /\ pc' = "done"
       ELSE /\ log' = log
            /\ pc' = IF closeFlag THEN "runClose" ELSE "done"
    /\ UNCHANGED <<closeFlag, yesFlag, repos, idx, doneCount, skippedCount,
                   errorCount, ooArgs, ooRet, execVars>>

\* runClose: campaign.OpenCampaign() and its activity
OpenCampaign ==
    /\ pc = "runClose"
    /\ \/ /\ log' = log \o << Event("StartActivity", 0, "Reading campaign data", <<>>),
                             Event("EndWithFailure", 0, "OpenCampaignError", <<>>) >>
          /\ pc' = "done"
          /\ repos' = repos
       \/ \E rs \in Campaigns :
          /\ log' = log \o << Event("StartActivity", 0, "Reading campaign data", <<>>),
                             Event("EndWithSuccess", 0, "", <<>>) >>
          /\ repos' = rs
          /\ pc' = "confirm"
    /\ UNCHANGED <<closeFlag, yesFlag, idx, doneCount, skippedCount,
                   errorCount, ooArgs, ooRet, execVars>>

\* runClose: the confirmation prompt, then the counters and the loop entry
Confirm ==
    /\ pc = "confirm"
    /\ IF ConfirmNeeded(yesFlag)
       THEN \E answer \in BOOLEAN :
            /\ log' = Append(log, Event("AskConfirm", 0,
                                        IF answer THEN "yes" ELSE "no", <<>>))
            /\ IF ~answer
               THEN /\ pc' = "done"
                    /\ UNCHANGED <<idx, doneCount, skippedCount, errorCount>>
               ELSE /\ pc' = "loop"
                    /\ idx' = 1
                    /\ doneCount' = 0
                    /\ skippedCount' = 0
                    /\ errorCount' = 0
       ELSE /\ log' = log
            /\ pc' = "loop"
            /\ idx' = 1
            /\ doneCount' = 0
            /\ skippedCount' = 0
            /\ errorCount' = 0
    /\ UNCHANGED <<closeFlag, yesFlag, repos, ooArgs, ooRet, execVars>>

\* loop body, first half: start the activity and stat the working copy
LoopHead ==
    /\ pc = "loop"
    /\ idx <= Len(repos)
    /\ \E st \in StatResults :
       LET repo == repos[idx]
           begun == log \o << Event("StartActivity", repo, "", <<>>),
                              Event("Stat", repo, st, <<>>) >>
       IN  IF IsNotExist(st)
           THEN /\ log' = Append(begun, Event("EndWithWarning", repo,
                                              "Directory does not exist", <<>>))
                /\ skippedCount' = skippedCount + 1
                /\ idx' = NextIndex(idx, "Skipped")
                /\ pc' = "loop"
           ELSE /\ log' = begun
                /\ skippedCount' = skippedCount
                /\ idx' = idx
                /\ pc' = "close"
    /\ UNCHANGED <<closeFlag, yesFlag, repos, doneCount, errorCount,
                   ooArgs, ooRet, execVars>>

\* loop body, second half: gh.ClosePullRequest and the classification
ClosePR ==
    /\ pc = "close"
    /\ \E err \in CloseResults :
       LET repo == repos[idx]
           called == Append(log, Event("ClosePullRequest", repo, err, <<>>))
           class == Classify(err)
       IN  /\ log' = Append(called,
                       Event(CASE class = "Done" -> "EndWithSuccess"
                               [] class = "Skipped" -> "EndWithWarning"
                               [] OTHER -> "EndWithFailure",
                             repo, err, <<>>))
           /\ doneCount' = doneCount + (IF class = "Done" THEN 1 ELSE 0)
           /\ skippedCount' = skippedCount + (IF class = "Skipped" THEN 1 ELSE 0)
           /\ errorCount' = errorCount + (IF class = "Errored" THEN 1 ELSE 0)
           /\ idx' = NextIndex(idx, class)
    /\ pc' = "loop"
    /\ UNCHANGED <<closeFlag, yesFlag, repos, ooArgs, ooRet, execVars>>

\* after the loop: the aggregate summary
Summary ==
    /\ pc = "loop"
    /\ idx > Len(repos)
    /\ log' = Append(log, SummaryEvent(doneCount, skippedCount, errorCount))
    /\ pc' = "done"
    /\ UNCHANGED <<closeFlag, yesFlag, repos, idx, doneCount, skippedCount,
                   errorCount, ooArgs, ooRet, execVars>>

\* a direct call onlyOne(args...) with any argument list
OnlyOneCall ==
    /\ pc = "run"
    /\ \E args \in BoolSeqs :
       /\ ooArgs' = args
       /\ ooRet' = onlyOne(args)
    /\ pc' = "onlyOneReturned"
    /\ UNCHANGED <<closeFlag, yesFlag, repos, idx, doneCount, skippedCount,
                   errorCount, log, execVars>>

Next ==
    \/ Run
    \/ OpenCampaign
    \/ Confirm
    \/ LoopHead
    \/ ClosePR
    \/ Summary
    \/ OnlyOneCall

Spec == Init /\ [][Next]_vars

\* -------------------------------------------------------------------------
\* RealExecutor
\* -------------------------------------------------------------------------

\* NewRealExecutor() and the inputs of the one Execute call
InitExec ==
    /\ Verbose = TRUE
    /\ output \in {"ok", "broken"}
    /\ callArgs \in ArgLists
    /\ ExecIdle
    /\ closeFlag = FALSE
    /\ yesFlag = FALSE
    /\ pc = "done"
    /\ repos = <<>>
    /\ idx = 0
    /\ doneCount = 0
    /\ skippedCount = 0
    /\ errorCount = 0
    /\ log = <<>>
    /\ ooArgs = <<>>
    /\ ooRet = FALSE

\* SetVerbose(verbose)
SetVerbose ==
    /\ epc = "idle"
    /\ \E verbose \in BOOLEAN : Verbose' = verbose
    /\ UNCHANGED <<output, callArgs, epc, command, sink, startCalls, spawned,
                   startRes, waitRes, ret, runVars>>

\* Execute: build the command and, when verbose, write the trace line
ExecuteBegin ==
    /\ epc = "idle"
    /\ command' = NewCommand(Name, callArgs, WorkingDir)
    /\ IF Verbose
       THEN IF TraceWriteFails(Verbose, output)
            THEN /\ sink' = sink
                 /\ ret' = "WriteError"
                 /\ epc' = "returned"
            ELSE /\ sink' = Append(sink, TraceLine(Name, callArgs, WorkingDir))
                 /\ ret' = ret
                 /\ epc' = "created"
       ELSE /\ sink' = sink
            /\ ret' = ret
            /\ epc' = "created"
    /\ UNCHANGED <<Verbose, output, callArgs, startCalls, spawned, startRes,
                   waitRes, runVars>>

\* Execute: command.Start()
ExecuteStart ==
    /\ epc = "created"
    /\ startCalls' = startCalls + 1
    /\ \E err \in {"nil", "StartError"} :
       /\ startRes' = err
       /\ IF err # "nil"
          THEN /\ ret' = err
               /\ epc' = "returned"
               /\ spawned' = spawned
          ELSE /\ ret' = ret
               /\ epc' = "started"
               /\ spawned' = Append(spawned, command.Args)
    /\ UNCHANGED <<Verbose, output, callArgs, command, sink, waitRes, runVars>>

\* Execute: command.Wait() and the final return
ExecuteWait ==
    /\ epc = "started"
    /\ \E err \in WaitResults(output) :
       /\ waitRes' = err
       /\ ret' = err
    /\ epc' = "returned"
    /\ UNCHANGED <<Verbose, output, callArgs, command, sink, startCalls,
                   spawned, startRes, runVars>>

NextExec ==
    \/ SetVerbose
    \/ ExecuteBegin
    \/ ExecuteStart
    \/ ExecuteWait

SpecExec == InitExec /\ [][NextExec]_vars

\* -------------------------------------------------------------------------
\* Reading the call log
\* -------------------------------------------------------------------------

\* positions of the log holding event ev
At(ev) == { i \in DOMAIN log : log[i].ev = ev }

\* positions of the log holding event ev with result res
AtRes(ev, res) == { i \in At(ev) : log[i].res = res }

\* positions of the log that belong to the processing of some repository
RepoAt == { i \in DOMAIN log : log[i].repo # 0 }

EndEvents == {"EndWithSuccess", "EndWithWarning", "EndWithFailure"}

\* positions where the processing of a repository ended
EndedAt == { i \in RepoAt : log[i].ev \in EndEvents }

\* positions of the aggregate summary
SummaryAt == At("Successf") \cup At("Warnf")

\* the repositories whose activity was started, in the order of their start
StartedRepos ==
    LET starts == SelectSeq(log, LAMBDA e : e.ev = "StartActivity" /\ e.repo # 0)
    IN  [i \in DOMAIN starts |-> starts[i].repo]

\* the confirmation gate was passed: the loop was entered
GatePassed == pc \in {"loop", "close"} \/ RepoAt # {} \/ SummaryAt # {}

\* -------------------------------------------------------------------------
\* C1
\* -------------------------------------------------------------------------

\* C1: every result of ClosePullRequest is reported and counted by the rule
\* nil -> EndWithSuccess and doneCount, NoPRFoundError -> EndWithWarning and
\* skippedCount (never errorCount), any other error -> EndWithFailure and
\* errorCount; each call adds 1 to exactly one counter.
C1_Classification ==
    /\ \A i \in At("ClosePullRequest") :
          /\ i + 1 \in DOMAIN log
          /\ log[i + 1].repo = log[i].repo
          /\ log[i + 1].ev =
                CASE log[i].res = "nil" -> "EndWithSuccess"
                  [] log[i].res = "NoPRFoundError" -> "EndWithWarning"
                  [] OTHER -> "EndWithFailure"
    /\ doneCount = Cardinality(AtRes("ClosePullRequest", "nil"))
    /\ errorCount = Cardinality(AtRes("ClosePullRequest", "OtherError"))
    /\ skippedCount = Cardinality(AtRes("ClosePullRequest", "NoPRFoundError"))
                      + Cardinality(AtRes("Stat", "ErrNotExist"))

\* a finished run in which the three kinds of result all occurred
C1_Witness ==
    /\ pc = "done"
    /\ SummaryAt # {}
    /\ AtRes("ClosePullRequest", "nil") # {}
    /\ AtRes("ClosePullRequest", "NoPRFoundError") # {}
    /\ AtRes("ClosePullRequest", "OtherError") # {}
    /\ doneCount = 1 /\ skippedCount = 1 /\ errorCount = 1

\* -------------------------------------------------------------------------
\* C2
\* -------------------------------------------------------------------------

\* C2: a repository whose clone directory does not exist is reported with a
\* warning and counted as skipped, ClosePullRequest is never called for it,
\* and doneCount and errorCount count only repositories that were closed.
C2_MissingDirSkipped ==
    /\ \A i \in AtRes("Stat", "ErrNotExist") :
          /\ i + 1 \in DOMAIN log
          /\ log[i + 1].ev = "EndWithWarning"
          /\ log[i + 1].repo = log[i].repo
          /\ \A j \in At("ClosePullRequest") : log[j].repo # log[i].repo
    /\ skippedCount >= Cardinality(AtRes("Stat", "ErrNotExist"))
    /\ doneCount + errorCount <= Cardinality(At("ClosePullRequest"))
    /\ Cardinality(At("ClosePullRequest")) + Cardinality(AtRes("Stat", "ErrNotExist"))
          = Cardinality(EndedAt)

\* a finished run with one missing clone directory and one closed PR
C2_Witness ==
    /\ pc = "done"
    /\ SummaryAt # {}
    /\ Cardinality(AtRes("Stat", "ErrNotExist")) = 1
    /\ skippedCount = 1
    /\ doneCount = 1

\* -------------------------------------------------------------------------
\* C3
\* -------------------------------------------------------------------------

\* C3: past the confirmation gate the repositories are started in list order,
\* each once, one at a time (the previous one has ended), ClosePullRequest is
\* called at most once per repository, and the run only ends with the whole
\* list processed, whatever the outcomes were.
C3_FullSequentialPass ==
    /\ Len(StartedRepos) <= Len(repos)
    /\ StartedRepos = SubSeq(repos, 1, Len(StartedRepos))
    /\ \A i \in RepoAt :
          IF log[i].ev = "StartActivity"
          THEN i > 1 /\ (log[i - 1].repo = 0 \/ log[i - 1].ev \in EndEvents)
          ELSE /\ log[i - 1].repo = log[i].repo
               /\ log[i - 1].ev \notin EndEvents
    /\ \A i, j \in At("ClosePullRequest") : log[i].repo = log[j].repo => i = j
    /\ \A i, j \in EndedAt : log[i].repo = log[j].repo => i = j
    /\ pc = "loop" => Cardinality(EndedAt) = idx - 1
    /\ pc = "close" => Cardinality(EndedAt) = idx - 1
    /\ (GatePassed /\ pc = "done") =>
          /\ StartedRepos = repos
          /\ Cardinality(EndedAt) = Len(repos)

\* the run went on to the end after an error and a skip
C3_Witness ==
    /\ pc = "done"
    /\ Len(repos) = 3
    /\ StartedRepos = repos
    /\ repos[1] > repos[2]
    /\ \E i \in AtRes("ClosePullRequest", "OtherError") : log[i].repo = repos[1]
    /\ \E i \in AtRes("Stat", "ErrNotExist") : log[i].repo = repos[2]
    /\ \E i \in AtRes("ClosePullRequest", "nil") : log[i].repo = repos[3]

\* -------------------------------------------------------------------------
\* C4
\* -------------------------------------------------------------------------

\* the state part of C4
CountersMatchProcessed ==
    /\ doneCount + skippedCount + errorCount = Cardinality(EndedAt)
    /\ doneCount >= 0 /\ skippedCount >= 0 /\ errorCount >= 0
    /\ SummaryAt # {} => doneCount + skippedCount + errorCount = Len(repos)

\* C4: in every state the three counters add up to the number of
\* repositories whose processing has finished, they are never negative and
\* no step decreases one, and at the summary the sum is the list's length.
C4_CounterSum ==
    /\ [] CountersMatchProcessed
    /\ [][ /\ doneCount' >= doneCount
           /\ skippedCount' >= skippedCount
           /\ errorCount' >= errorCount ]_vars

\* a finished run over three repositories, one per counter
C4_Witness ==
    /\ SummaryAt # {}
    /\ Len(repos) = 3
    /\ doneCount = 1 /\ skippedCount = 1 /\ errorCount = 1

\* -------------------------------------------------------------------------
\* C5
\* -------------------------------------------------------------------------

\* C5: there is at most one summary, it is the last thing logged and comes
\* after every repository has ended; it is the success summary (done and
\* skipped counts) exactly when no ClosePullRequest call returned an error
\* other than NoPRFoundError, otherwise the warning summary that also
\* carries the error count; a loop that finished has emitted it.
C5_Summary ==
    /\ Cardinality(SummaryAt) <= 1
    /\ \A i \in SummaryAt :
          /\ i = Len(log)
          /\ pc = "done"
          /\ Cardinality(EndedAt) = Len(repos)
          /\ (log[i].ev = "Successf") <=> (errorCount = 0)
          /\ (log[i].ev = "Successf") <=> (AtRes("ClosePullRequest", "OtherError") = {})
          /\ log[i].ev = "Successf" => log[i].counts = <<doneCount, skippedCount>>
          /\ log[i].ev = "Warnf" =>
                /\ log[i].counts = <<doneCount, skippedCount, errorCount>>
                /\ errorCount = Cardinality(AtRes("ClosePullRequest", "OtherError"))
                /\ errorCount > 0
    /\ (GatePassed /\ pc = "done") => Cardinality(SummaryAt) = 1

\* a run with one failed close ended with the warning summary
C5_Witness ==
    /\ pc = "done"
    /\ At("Warnf") # {}
    /\ errorCount = 1
    /\ doneCount = 2

\* -------------------------------------------------------------------------
\* C6
\* -------------------------------------------------------------------------

\* C6: nothing is done to a repository without confirmation. With --yes
\* AskConfirm is never called and a campaign that was read is iterated; without
\* it AskConfirm is called once, before any repository event, and on "no"
\* the run is over with no repository event, no close, zero counters and no
\* summary.
C6_ConfirmationGate ==
    /\ Cardinality(At("AskConfirm")) <= 1
    /\ yesFlag => At("AskConfirm") = {}
    /\ GatePassed =>
          \/ yesFlag
          \/ /\ AtRes("AskConfirm", "yes") # {}
             /\ \A i \in At("AskConfirm") :
                   \A j \in RepoAt \cup SummaryAt : i < j
    /\ AtRes("AskConfirm", "no") # {} =>
          /\ pc = "done"
          /\ RepoAt = {}
          /\ SummaryAt = {}
          /\ doneCount = 0 /\ skippedCount = 0 /\ errorCount = 0
          /\ \A i \in At("AskConfirm") : i = Len(log)
    /\ (~yesFlag /\ pc \in {"loop", "close"}) => AtRes("AskConfirm", "yes") # {}
    /\ (yesFlag /\ pc = "done" /\ At("EndWithSuccess") # {}) => SummaryAt # {}

\* the user declined and the run stopped there
C6_Witness ==
    /\ ~yesFlag
    /\ pc = "done"
    /\ AtRes("AskConfirm", "no") # {}
    /\ Len(repos) = 3

\* -------------------------------------------------------------------------
\* C7
\* -------------------------------------------------------------------------

\* C7: onlyOne is true exactly when one of its arguments is true, and a run
\* whose flags fail the check logs the configuration error and does nothing
\* else: no campaign read, no prompt, no repository, no summary.
C7_FlagValidation ==
    /\ pc = "onlyOneReturned" =>
          (ooRet <=> Cardinality({ i \in DOMAIN ooArgs : ooArgs[i] }) = 1)
    /\ (~closeFlag /\ pc \notin {"run", "onlyOneReturned"}) =>
          /\ pc = "done"
          /\ Len(log) = 1
          /\ log[1].ev = "Errorf"
          /\ repos = <<>>
          /\ doneCount = 0 /\ skippedCount = 0 /\ errorCount = 0
    /\ closeFlag => At("Errorf") = {}
    /\ (closeFlag /\ pc = "done") => At("StartActivity") # {}

\* the run was refused because --close was not given
C7_Witness ==
    /\ ~closeFlag
    /\ pc = "done"
    /\ At("Errorf") = {1}

\* -------------------------------------------------------------------------
\* C8
\* -------------------------------------------------------------------------

\* C8: the trace line lists as many arguments as the call, in the same
\* order, an argument of length <= 30 verbatim and a longer one as "...",
\* while the command and every started process carry the original arguments.
C8_Redaction ==
    /\ \A n \in DOMAIN sink :
          /\ Len(sink[n].args) = Len(callArgs)
          /\ \A i \in DOMAIN callArgs :
                sink[n].args[i] =
                   IF Len(callArgs[i]) <= 30 THEN callArgs[i] ELSE <<".", ".", ".">>
    /\ epc # "idle" => command.Args = <<Name>> \o callArgs
    /\ \A n \in DOMAIN spawned : spawned[n] = <<Name>> \o callArgs

\* a traced and started call with an argument of length 30 before one of 31
C8_Witness ==
    /\ Len(sink) = 1
    /\ Len(spawned) = 1
    /\ Len(callArgs) = 3
    /\ Len(callArgs[1]) = 30
    /\ Len(callArgs[2]) = 31
    /\ Len(callArgs[3]) = 1
    /\ sink[1].args = << callArgs[1], <<".", ".", ".">>, callArgs[3] >>
    /\ spawned[1][3] = callArgs[2]

\* -------------------------------------------------------------------------
\* C9
\* -------------------------------------------------------------------------

\* Execute has returned an error
ReturnedError == epc = "returned" /\ ret # "nil"

\* C9 as stated: Execute returns an error exactly when the process failed
\* to start or exited non-zero, whatever the verbose setting and the sink.
C9_AsStated ==
    epc = "returned" =>
       (ret # "nil" <=> (startRes = "StartError" \/ waitRes = "ExitError"))

\* C9 amended: Execute returns an error exactly when the verbose trace line
\* could not be written to the sink (the process is then never started), the
\* process failed to start, or waiting for it failed (non-zero exit, or its
\* output could not be copied to the sink); with a sink that accepts every
\* write this is exactly a start failure or a non-zero exit. The process is
\* started at most once.
C9_ErrorIff ==
    /\ startCalls <= 1
    /\ Len(spawned) <= startCalls
    /\ epc = "returned" =>
          /\ ret # "none"
          /\ ReturnedError <=>
                \/ (Verbose /\ output = "broken")
                \/ startRes = "StartError"
                \/ waitRes \in {"ExitError", "CopyError"}
          /\ (Verbose /\ output = "broken") => (startCalls = 0 /\ spawned = <<>>)
          /\ output = "ok" =>
                (ReturnedError <=> (startRes = "StartError" \/ waitRes = "ExitError"))
          /\ ret = "nil" => (startCalls = 1 /\ Len(spawned) = 1 /\ waitRes = "nil")

\* a verbose call on a sink that refuses the trace line
C9_Witness ==
    /\ ReturnedError
    /\ Verbose
    /\ output = "broken"
    /\ startCalls = 0
    /\ Len(callArgs) = 3

\* -------------------------------------------------------------------------
\* C10
\* -------------------------------------------------------------------------

\* C10 as stated: when no close action failed, the run ends with
\* doneCount = N, skippedCount = 0, errorCount = 0 and the success summary.
C10_AsStated ==
    (SummaryAt # {} /\ \A i \in At("ClosePullRequest") : log[i].res = "nil") =>
       /\ doneCount = Len(repos)
       /\ skippedCount = 0
       /\ errorCount = 0
       /\ At("Successf") # {}

\* C10 amended: when every clone directory exists and no close action
\* failed, the run ends with doneCount = N, skippedCount = 0, errorCount = 0
\* and the success summary; when only no close action failed, errorCount = 0,
\* the summary is the success one, and skippedCount is the number of missing
\* clone directories.
C10_AllSucceed ==
    (SummaryAt # {} /\ \A i \in At("ClosePullRequest") : log[i].res = "nil") =>
       /\ errorCount = 0
       /\ At("Successf") # {}
       /\ skippedCount = Cardinality(AtRes("Stat", "ErrNotExist"))
       /\ doneCount = Len(repos) - skippedCount
       /\ AtRes("Stat", "ErrNotExist") = {} =>
             /\ doneCount = Len(repos)
             /\ skippedCount = 0

\* three repositories, all cloned, all closed
C10_Witness ==
    /\ SummaryAt # {}
    /\ Len(repos) = 3
    /\ AtRes("Stat", "ErrNotExist") = {}
    /\ AtRes("Stat", "ErrPermission") # {}
    /\ \A i \in At("ClosePullRequest") : log[i].res = "nil"
    /\ doneCount = 3

====
